---- MODULE Spec2Model ----
(***************************************************************************)
(* Model of the webhook bridge: functions/webhooks.js (the two resource    *)
(* webhooks and their three outbound request functions) and                *)
(* functions/database.js (the three upsert routines).                      *)
(***************************************************************************)
EXTENDS Integers, Sequences, FiniteSets, TLC

VARIABLES env, inv, tables, conns, http

vars == <<env, inv, tables, conns, http>>

(***************************************************************************)
(* JavaScript values, tagged by their type.                                *)
(***************************************************************************)
Undefined == <<"undefined">>

Null == <<"null">>

Bool(b) == <<"bool", b>>

Num(n) == <<"num", n>>

Str(s) == <<"str", s>>

Obj(f) == <<"obj", f>>

Arr(s) == <<"arr", s>>

EmptyObject == Obj(<<>>)

\* An object whose key order matters to the code (Object.entries).
OrderedObj(keys, f) == <<"obj", f, keys>>

IsNullish(v) == v[1] \in {"undefined", "null"}

\* ToBoolean, as used by !x, x && y, x || y and if (x).
Truthy(v) ==
  CASE v[1] = "undefined" -> FALSE
    [] v[1] = "null" -> FALSE
    [] v[1] = "bool" -> v[2]
    [] v[1] = "num" -> v[2] # 0
    [] v[1] = "str" -> v[2] # ""
    [] OTHER -> TRUE

\* a || b
Or(a, b) == IF Truthy(a) THEN a ELSE b

\* v.k for a v that is neither null nor undefined (those throw a TypeError).
Get(v, k) ==
  IF v[1] = "obj" /\ k \in DOMAIN v[2] THEN v[2][k] ELSE Undefined

IsArray(v) == v[1] = "arr"

\* typeof v === 'object'
TypeofObject(v) == v[1] \in {"obj", "arr", "null"}

RECURSIVE SeqOf(_)
SeqOf(S) ==
  IF S = {} THEN <<>>
  ELSE LET x == CHOOSE y \in S : TRUE IN <<x>> \o SeqOf(S \ {x})

\* The keys of an object in insertion order.
EntryKeys(v) == IF Len(v) = 3 THEN v[3] ELSE SeqOf(DOMAIN v[2])

\* Object.entries(v) of an object or an array: the values, in order.
EntryValues(v) ==
  IF v[1] = "arr" THEN v[2]
  ELSE IF v[1] = "obj"
  THEN [n \in 1..Len(EntryKeys(v)) |-> v[2][EntryKeys(v)[n]]]
  ELSE <<>>

\* for (const x of v) needs an iterable; of the values modelled, an array.
IsIterable(v) == v[1] = "arr"

(***************************************************************************)
(* Configuration (process.env) and the messages of the handlers.           *)
(***************************************************************************)
GoodUrl == "https://broker.example/auth"

BadUrl == "broker.example"

\* new URL(url) accepts absolute URLs only.
UrlParses(s) == s = GoodUrl

EnvValues == {Undefined, Str(""), Str("F-1")}

UrlValues == {Undefined, Str(""), Str(GoodUrl), Str(BadUrl)}

Handlers == {"signups", "codes"}

MissingMessage(name) == name \o " environment variable is not set"

\* The checks without the one on DATABASE_URL.
ValidateEnvNoDatabaseUrl(e) ==
  IF ~Truthy(e.FACILITY_ID) THEN MissingMessage("FACILITY_ID")
  ELSE IF ~Truthy(e.EXTERNAL_WEBHOOK_URL) THEN MissingMessage("EXTERNAL_WEBHOOK_URL")
  ELSE ""

\* The checks at the head of both handlers, in their order: the message of
\* the first failing one, or "" when all three settings are there.
ValidateEnv(e) ==
  IF ~Truthy(e.FACILITY_ID) THEN MissingMessage("FACILITY_ID")
  ELSE IF ~Truthy(e.EXTERNAL_WEBHOOK_URL) THEN MissingMessage("EXTERNAL_WEBHOOK_URL")
  ELSE IF ~Truthy(e.DATABASE_URL) THEN MissingMessage("DATABASE_URL")
  ELSE ""

InvalidUrlMessage(url) == "Invalid URL: " \o url \o ". Error: Invalid URL"

NetworkErrorMessage == "connect ECONNREFUSED"

TypeErrorMessage(of, key) ==
  "Cannot read properties of " \o of \o " (reading '" \o key \o "')"

(***************************************************************************)
(* Auth/session extraction: the code between the authentication call and  *)
(* the resource call.  The result is either a credential or a thrown       *)
(* TypeError (which the handler's outer catch turns into HTTP 500).        *)
(***************************************************************************)
Credential(cookies, xsrf) ==
  [threw |-> FALSE, cookies |-> cookies, xsrf |-> xsrf, error |-> ""]

Thrown(message) ==
  [threw |-> TRUE, cookies |-> Undefined, xsrf |-> Undefined, error |-> message]

NullishName(v) == v[1]

\* handleGetElearningCodes: the flat branch reads externalResponse.xsrf.
FlatXsrfCodes(externalResponse, response) ==
  Credential(Get(externalResponse, "cookies"),
             Or(Get(externalResponse, "xsrf"), Str("")))

ExtractSessionCodes(externalResponse) ==
  IF IsNullish(externalResponse)
  THEN Thrown(TypeErrorMessage(NullishName(externalResponse), "response"))
  ELSE LET response == Get(externalResponse, "response") IN
    IF Truthy(response) /\ Truthy(Get(response, "cookies"))
    THEN Credential(Get(response, "cookies"), Or(Get(response, "xsrf"), Str("")))
    ELSE IF Truthy(Get(externalResponse, "cookies"))
    THEN FlatXsrfCodes(externalResponse, response)
    ELSE Credential(EmptyObject, Str(""))

\* handleGetFacilitySignups: the flat branch reads
\* externalResponse.response.xsrf, where externalResponse.response is falsy
\* or has no cookies.
FlatXsrfSignups(externalResponse, response) ==
  IF IsNullish(response)
  THEN Thrown(TypeErrorMessage(NullishName(response), "xsrf"))
  ELSE Credential(Get(externalResponse, "cookies"),
                  Or(Get(response, "xsrf"), Str("")))

ExtractSessionSignups(externalResponse) ==
  IF IsNullish(externalResponse)
  THEN Thrown(TypeErrorMessage(NullishName(externalResponse), "response"))
  ELSE LET response == Get(externalResponse, "response") IN
    IF Truthy(response) /\ Truthy(Get(response, "cookies"))
    THEN Credential(Get(response, "cookies"), Or(Get(response, "xsrf"), Str("")))
    ELSE IF Truthy(Get(externalResponse, "cookies"))
    THEN FlatXsrfSignups(externalResponse, response)
    ELSE Credential(EmptyObject, Str(""))

ExtractSession(handler, externalResponse) ==
  IF handler = "signups"
  THEN ExtractSessionSignups(externalResponse)
  ELSE ExtractSessionCodes(externalResponse)

(***************************************************************************)
(* The outbound requests, as issued through https.request.                 *)
(***************************************************************************)
\* `${v}` of the values that reach the templates: strings.
TemplateString(v) == IF v[1] = "str" THEN v[2] ELSE ToString(v)

\* The Cookie header of makeFacilitySignupsRequest, as its name=value pairs
\* in order.
SignupsCookie(facilityId, cookies, xsrf) ==
  << <<"ITIAuthToken", TemplateString(Or(Get(cookies, "ITIAuthToken"), Str("")))>>,
     <<"PORTALSESSID", TemplateString(Or(Get(cookies, "PORTALSESSID"), Str("")))>>,
     <<"SAMLSessionID", TemplateString(Or(Get(cookies, "SAMLSessionID"), Str("")))>>,
     <<"SelectedFacility", TemplateString(facilityId)>>,
     <<"XSRF-TOKEN", TemplateString(Or(xsrf, Str("")))>>,
     <<"tdisdi_portal_session",
       TemplateString(Or(Get(cookies, "tdisdi_portal_session"), Str("")))>> >>

\* A Cookie header that leaves the XSRF-TOKEN pair out.
CodesCookieNoToken(facilityId, cookies, xsrf) ==
  << <<"ITIAuthToken", TemplateString(Or(Get(cookies, "ITIAuthToken"), Str("")))>>,
     <<"PORTALSESSID", TemplateString(Or(Get(cookies, "PORTALSESSID"), Str("")))>>,
     <<"SAMLSessionID", TemplateString(Or(Get(cookies, "SAMLSessionID"), Str("")))>>,
     <<"SelectedFacility", TemplateString(facilityId)>>,
     <<"tdisdi_portal_session",
       TemplateString(Or(Get(cookies, "tdisdi_portal_session"), Str("")))>> >>

\* The Cookie header of makeElearningCodesRequest.
CodesCookie(facilityId, cookies, xsrf) ==
  << <<"ITIAuthToken", TemplateString(Or(Get(cookies, "ITIAuthToken"), Str("")))>>,
     <<"PORTALSESSID", TemplateString(Or(Get(cookies, "PORTALSESSID"), Str("")))>>,
     <<"SAMLSessionID", TemplateString(Or(Get(cookies, "SAMLSessionID"), Str("")))>>,
     <<"SelectedFacility", TemplateString(facilityId)>>,
     <<"XSRF-TOKEN", TemplateString(Or(xsrf, Str("")))>>,
     <<"tdisdi_portal_session",
       TemplateString(Or(Get(cookies, "tdisdi_portal_session"), Str("")))>> >>

\* The 'x-csrf-token' header of either function: xsrf || ''.
CsrfHeader(xsrf) == Or(xsrf, Str(""))

AuthRequest(url, facilityId) ==
  [kind |-> "auth", method |-> "POST", url |-> url,
   body |-> [function |-> "authme", facility_id |-> facilityId]]

ResourcePath(handler) ==
  IF handler = "signups" THEN "/ajax/get_facility_signups"
  ELSE "/ajax/get_elearning_codes_by_facility"

ResourceReferer(handler) ==
  IF handler = "signups" THEN "https://portal.tdisdi.com/"
  ELSE "https://portal.tdisdi.com/elearning/manage-codes"

ResourceRequest(handler, facilityId, cookies, xsrf) ==
  [kind |-> handler, method |-> "GET", hostname |-> "portal.tdisdi.com",
   path |-> ResourcePath(handler), facility_uuid |-> facilityId,
   cookies |-> cookies, xsrf |-> xsrf,
   Cookie |-> IF handler = "signups"
              THEN SignupsCookie(facilityId, cookies, xsrf)
              ELSE CodesCookie(facilityId, cookies, xsrf),
   csrfHeader |-> CsrfHeader(xsrf),
   Referer |-> ResourceReferer(handler)]

(***************************************************************************)
(* Persistence layer: the values each routine binds to its statement, and  *)
(* the statement's INSERT ... ON CONFLICT ... DO UPDATE on a table, a set  *)
(* of rows.                                                                *)
(***************************************************************************)
\* node-postgres binds undefined as NULL.
ToSql(v) == IF v = Undefined THEN Null ELSE v

\* new Date().toISOString() at the time of the call.
NowIso == Str("now")

SignupColumns ==
  {"user_id", "id", "facility_id", "user_uuid", "username", "name", "email",
   "email_verified_at", "password", "remember_token", "created_at", "updated_at",
   "created_user_id", "updated_user_id", "instance_id", "prefix_id", "first_name",
   "middle_name", "last_name", "suffix_id", "gender", "member_number", "region_id",
   "login_count", "login_stamp", "status_id", "user_level_id", "admin_level_id",
   "dob", "meta_data", "external_ids", "biometric_key", "biometric_expiration",
   "reward_program", "member_added_date"}

\* The columns of ON CONFLICT (user_id) DO UPDATE SET: all but user_id and
\* created_at.
SignupUpdateColumns == SignupColumns \ {"user_id", "created_at"}

\* The values array without the || defaults: every field as it is.
SignupValuesUndefaulted(user) ==
  [user_id |-> ToSql(Get(user, "user_id")),
   id |-> ToSql(Get(user, "id")),
   facility_id |-> ToSql(Get(user, "facility_id")),
   user_uuid |-> ToSql(Get(user, "user_uuid")),
   username |-> ToSql(Get(user, "username")),
   name |-> ToSql(Get(user, "name")),
   email |-> ToSql(Get(user, "email")),
   email_verified_at |-> ToSql(Get(user, "email_verified_at")),
   password |-> ToSql(Get(user, "password")),
   remember_token |-> ToSql(Get(user, "remember_token")),
   created_at |-> ToSql(Get(user, "created_at")),
   updated_at |-> ToSql(Get(user, "updated_at")),
   created_user_id |-> ToSql(Get(user, "created_user_id")),
   updated_user_id |-> ToSql(Get(user, "updated_user_id")),
   instance_id |-> ToSql(Get(user, "instance_id")),
   prefix_id |-> ToSql(Get(user, "prefix_id")),
   first_name |-> ToSql(Get(user, "first_name")),
   middle_name |-> ToSql(Get(user, "middle_name")),
   last_name |-> ToSql(Get(user, "last_name")),
   suffix_id |-> ToSql(Get(user, "suffix_id")),
   gender |-> ToSql(Get(user, "gender")),
   member_number |-> ToSql(Get(user, "member_number")),
   region_id |-> ToSql(Get(user, "region_id")),
   login_count |-> ToSql(Get(user, "login_count")),
   login_stamp |-> ToSql(Get(user, "login_stamp")),
   status_id |-> ToSql(Get(user, "status_id")),
   user_level_id |-> ToSql(Get(user, "user_level_id")),
   admin_level_id |-> ToSql(Get(user, "admin_level_id")),
   dob |-> ToSql(Get(user, "dob")),
   meta_data |-> ToSql(Get(user, "meta_data")),
   external_ids |-> ToSql(Get(user, "external_ids")),
   biometric_key |-> ToSql(Get(user, "biometric_key")),
   biometric_expiration |-> ToSql(Get(user, "biometric_expiration")),
   reward_program |-> ToSql(Get(user, "reward_program")),
   member_added_date |-> ToSql(Get(user, "member_added_date"))]

\* The values array of insertFacilitySignups for one user.
SignupValues(user) ==
  [user_id |-> ToSql(Get(user, "user_id")),
   id |-> ToSql(Get(user, "id")),
   facility_id |-> ToSql(Get(user, "facility_id")),
   user_uuid |-> ToSql(Get(user, "user_uuid")),
   username |-> ToSql(Get(user, "username")),
   name |-> ToSql(Get(user, "name")),
   email |-> ToSql(Get(user, "email")),
   email_verified_at |-> ToSql(Get(user, "email_verified_at")),
   password |-> ToSql(Get(user, "password")),
   remember_token |-> ToSql(Get(user, "remember_token")),
   created_at |-> ToSql(Get(user, "created_at")),
   updated_at |-> ToSql(Or(Get(user, "updated_at"), Get(user, "created_at"))),
   created_user_id |-> ToSql(Or(Get(user, "created_user_id"), Num(0))),
   updated_user_id |-> ToSql(Or(Get(user, "updated_user_id"), Num(0))),
   instance_id |-> ToSql(Or(Get(user, "instance_id"), Num(0))),
   prefix_id |-> ToSql(Or(Get(user, "prefix_id"), Num(0))),
   first_name |-> ToSql(Get(user, "first_name")),
   middle_name |-> ToSql(Get(user, "middle_name")),
   last_name |-> ToSql(Get(user, "last_name")),
   suffix_id |-> ToSql(Or(Get(user, "suffix_id"), Num(0))),
   gender |-> ToSql(Or(Get(user, "gender"), Num(0))),
   member_number |-> ToSql(Or(Get(user, "member_number"), Num(0))),
   region_id |-> ToSql(Or(Get(user, "region_id"), Num(0))),
   login_count |-> ToSql(Or(Get(user, "login_count"), Num(0))),
   login_stamp |-> ToSql(Or(Get(user, "login_stamp"), Get(user, "created_at"))),
   status_id |-> ToSql(Or(Get(user, "status_id"), Num(1))),
   user_level_id |-> ToSql(Or(Get(user, "user_level_id"), Num(1))),
   admin_level_id |-> ToSql(Or(Get(user, "admin_level_id"), Num(1))),
   dob |-> ToSql(Get(user, "dob")),
   meta_data |-> ToSql(Get(user, "meta_data")),
   external_ids |-> ToSql(Get(user, "external_ids")),
   biometric_key |-> ToSql(Get(user, "biometric_key")),
   biometric_expiration |-> ToSql(Get(user, "biometric_expiration")),
   reward_program |-> ToSql(Get(user, "reward_program")),
   member_added_date |-> ToSql(Get(user, "member_added_date"))]

CourseColumns == {"course_id", "agency", "agency_id", "label"}

CourseUpdateColumns == {"agency", "agency_id", "label"}

\* The values array of insertCourseInfo for one course entry.
CourseValues(course) ==
  [course_id |-> ToSql(Get(course, "course_id")),
   agency |-> ToSql(Get(course, "agency")),
   agency_id |-> ToSql(Get(course, "agency_id")),
   label |-> ToSql(Get(course, "label"))]

CodeColumns ==
  {"id", "user_id", "course_id", "user_name", "first_name", "middle_name",
   "last_name", "dob", "email", "facility_id", "facility_name", "facility_number",
   "office_id", "agency_id", "agency", "course_name", "course_meta", "moodle_id",
   "instance_id", "prefix_id", "suffix_id", "status_id", "status_label",
   "signup_code", "signup_date", "help_date", "created_at", "updated_at"}

\* The columns of ON CONFLICT (id) DO UPDATE SET: all but id and created_at.
CodeUpdateColumns == CodeColumns \ {"id", "created_at"}

\* The values array of insertElearningCodes for one code.
CodeValues(code) ==
  [id |-> ToSql(Or(Get(code, "id"), Num(0))),
   user_id |-> ToSql(Or(Get(code, "user_id"), Num(0))),
   course_id |-> ToSql(Or(Get(code, "course_id"), Num(0))),
   user_name |-> ToSql(Or(Get(code, "user_name"), Str(""))),
   first_name |-> ToSql(Or(Get(code, "first_name"), Str(""))),
   middle_name |-> ToSql(Or(Get(code, "middle_name"), Str(""))),
   last_name |-> ToSql(Or(Get(code, "last_name"), Str(""))),
   dob |-> ToSql(Or(Get(code, "dob"), Null)),
   email |-> ToSql(Or(Get(code, "email"), Str(""))),
   facility_id |-> ToSql(Or(Get(code, "facility_id"), Num(0))),
   facility_name |-> ToSql(Or(Get(code, "facility_name"), Str(""))),
   facility_number |-> ToSql(Or(Get(code, "facility_number"), Num(0))),
   office_id |-> ToSql(Or(Get(code, "office_id"), Num(0))),
   agency_id |-> ToSql(Or(Get(code, "agency_id"), Num(0))),
   agency |-> ToSql(Or(Get(code, "agency"), Str(""))),
   course_name |-> ToSql(Or(Get(code, "course_name"), Str(""))),
   course_meta |-> ToSql(Or(Get(code, "course_meta"), Null)),
   moodle_id |-> ToSql(Or(Get(code, "moodle_id"), Num(0))),
   instance_id |-> ToSql(Or(Get(code, "instance_id"), Num(0))),
   prefix_id |-> ToSql(Or(Get(code, "prefix_id"), Num(0))),
   suffix_id |-> ToSql(Or(Get(code, "suffix_id"), Num(0))),
   status_id |-> ToSql(Or(Get(code, "status_id"), Num(0))),
   status_label |-> ToSql(Or(Get(code, "status_label"), Str(""))),
   signup_code |-> ToSql(Or(Get(code, "signup_code"), Str(""))),
   signup_date |-> ToSql(Or(Get(code, "signup_date"), Null)),
   help_date |-> ToSql(Or(Get(code, "help_date"), Null)),
   created_at |-> ToSql(Or(Get(code, "created_at"), NowIso)),
   updated_at |-> ToSql(Or(Get(code, "updated_at"), NowIso))]

\* The table a routine writes, its conflict key and its DO UPDATE columns.
TableOf(routine) ==
  CASE routine = "insertFacilitySignups" -> "get_facility_signups"
    [] routine = "insertCourseInfo" -> "course_info"
    [] routine = "insertElearningCodes" -> "get_elearning_codes"

KeyOf(routine) ==
  CASE routine = "insertFacilitySignups" -> "user_id"
    [] routine = "insertCourseInfo" -> "course_id"
    [] routine = "insertElearningCodes" -> "id"

UpdateColumnsOf(routine) ==
  CASE routine = "insertFacilitySignups" -> SignupUpdateColumns
    [] routine = "insertCourseInfo" -> CourseUpdateColumns
    [] routine = "insertElearningCodes" -> CodeUpdateColumns

ValuesOf(routine, element) ==
  CASE routine = "insertFacilitySignups" -> SignupValues(element)
    [] routine = "insertCourseInfo" -> CourseValues(element)
    [] routine = "insertElearningCodes" -> CodeValues(element)

\* The conflicting row replaced by the new values, created_at included.
ConflictReplace(routine, old, values) == values

\* The row that INSERT ... ON CONFLICT (key) DO UPDATE SET leaves for a
\* conflicting row `old`: the listed columns from the new values, the others
\* as they were.
ConflictUpdate(routine, old, values) ==
  [c \in DOMAIN old |->
     IF c \in UpdateColumnsOf(routine) THEN values[c] ELSE old[c]]

\* An INSERT with no conflict target: the values always become a new row.
UpsertAlwaysInserts(routine, rows, values) == rows \cup {values}

\* One execution of insertQuery on the rows of a table.
Upsert(routine, rows, values) ==
  LET key == KeyOf(routine) IN
  IF values[key] # Null /\ \E r \in rows : r[key] = values[key]
  THEN {IF r[key] = values[key] THEN ConflictUpdate(routine, r, values) ELSE r :
          r \in rows}
  ELSE rows \cup {values}

\* The statements of a transaction, applied in order.
RECURSIVE ApplyAll(_, _, _)
ApplyAll(routine, rows, writes) ==
  IF writes = <<>> THEN rows
  ELSE ApplyAll(routine, Upsert(routine, rows, Head(writes)), Tail(writes))

(***************************************************************************)
(* What a routine does with its argument: per element either a statement   *)
(* with its values, or a TypeError thrown while the values are read, which *)
(* ends the loop.                                                          *)
(***************************************************************************)
QueryOp(values) == [throw |-> FALSE, message |-> "", values |-> values]

ThrowOp(message) == [throw |-> TRUE, message |-> message, values |-> <<>>]

EndsInThrow(ops) == ops # <<>> /\ ops[Len(ops)].throw

\* The loop over the elements of one array.
RECURSIVE ElementOps(_, _)
ElementOps(routine, list) ==
  IF list = <<>> THEN <<>>
  ELSE IF IsNullish(Head(list))
  THEN <<ThrowOp(TypeErrorMessage(NullishName(Head(list)), KeyOf(routine)))>>
  ELSE <<QueryOp(ValuesOf(routine, Head(list)))>>
         \o ElementOps(routine, Tail(list))

\* Only the first agency's list processed.
CourseOpsFirstAgency(lists) ==
  IF lists = <<>> THEN <<>>
  ELSE IF ~IsIterable(Head(lists))
  THEN <<ThrowOp("courseList is not iterable")>>
  ELSE ElementOps("insertCourseInfo", Head(lists)[2])

\* insertCourseInfo: for each [agencyName, courseList] of
\* Object.entries(courses), for each course of courseList.
RECURSIVE CourseOps(_)
CourseOps(lists) ==
  IF lists = <<>> THEN <<>>
  ELSE IF ~IsIterable(Head(lists))
  THEN <<ThrowOp("courseList is not iterable")>>
  ELSE LET ops == ElementOps("insertCourseInfo", Head(lists)[2]) IN
       IF EndsInThrow(ops) THEN ops ELSE ops \o CourseOps(Tail(lists))

OpsOf(routine, arg) ==
  IF routine = "insertCourseInfo" THEN CourseOps(EntryValues(arg))
  ELSE ElementOps(routine, arg[2])

ResultNoun(routine) ==
  CASE routine = "insertFacilitySignups" -> "users"
    [] routine = "insertCourseInfo" -> "courses"
    [] routine = "insertElearningCodes" -> "e-learning codes"

\* The value a routine returns after COMMIT.
RoutineResult(routine, count) ==
  [success |-> TRUE,
   message |-> "Inserted/Updated " \o ToString(count) \o " " \o ResultNoun(routine),
   count |-> count]

\* The count a routine reports: users.length, elearningCodes.length, or the
\* totalCourses counter.
ReportedCount(d) ==
  IF d.routine = "insertCourseInfo" THEN d.totalCourses ELSE Len(d.arg[2])

StatementErrorMessage(statement) == statement \o " failed"

NoDb ==
  [routine |-> "none", at |-> "none", arg |-> Undefined, ops |-> <<>>, k |-> 1,
   pending |-> <<>>, error |-> "", conn |-> "none", totalCourses |-> 0,
   savedRole |-> "origin", log |-> <<>>, releases |-> 0]

\* client.query(statement) is called: the statement is sent on the client.
Issued(d, statement) == [d EXCEPT !.log = Append(@, statement)]

\* The loop's exit straight to COMMIT, without the restoring SET.
AdvanceWithoutRestore(d) ==
  IF d.k > Len(d.ops) THEN [d EXCEPT !.at = "COMMIT"]
  ELSE IF d.ops[d.k].throw
  THEN [d EXCEPT !.at = "ROLLBACK", !.error = d.ops[d.k].message]
  ELSE [d EXCEPT !.at = "query"]

\* Where the routine stands once the statement before element k is done:
\* at the next statement, at the throw of element k, or past the loop.
Advance(d) ==
  IF d.k > Len(d.ops)
  THEN [d EXCEPT !.at = IF d.routine = "insertElearningCodes"
                        THEN "SET_default" ELSE "COMMIT"]
  ELSE IF d.ops[d.k].throw
  THEN [d EXCEPT !.at = "ROLLBACK", !.error = d.ops[d.k].message]
  ELSE [d EXCEPT !.at = "query"]

\* The catch block: the statement's error is kept and ROLLBACK is issued.
Catch(d, message) == [d EXCEPT !.at = "ROLLBACK", !.error = message]

(***************************************************************************)
(* The handlers, as functions of the invocation's local state.             *)
(***************************************************************************)
Idle ==
  [pc |-> "idle", handler |-> "none", externalResponse |-> Undefined,
   payload |-> Undefined, dbResults |-> <<>>, response |-> [status |-> 0],
   outbound |-> <<>>, calls |-> <<>>, db |-> NoDb, rejected |-> "none",
   aborted |-> "none"]

\* res.status(200).json({status, response, database})
Respond200(s) ==
  [s EXCEPT !.pc = "done",
            !.response = [status |-> 200,
                          body |-> [status |-> "success", response |-> s.payload,
                                    database |-> s.dbResults]]]

\* The outer catch: res.status(500).json({status, error})
Respond500(s, message) ==
  [s EXCEPT !.pc = "done",
            !.response = [status |-> 500,
                          body |-> [status |-> "error", error |-> message]]]

\* await makeExternalRequest(...) / await make...Request(...) rejects: the
\* error is thrown at the await and caught by the outer catch.  `call` names
\* the rejected call.
Reject(s, call, message) == Respond500([s EXCEPT !.rejected = call], message)

\* The connection of an outbound call closes after the response callback has
\* run and before the body is complete: the response emits 'aborted' and
\* 'error', for which the callback registered no listener, 'end' is never
\* emitted and the request emits no 'error'.  The promise stays pending and
\* the handler stays suspended at its await.
Abort(s, call) == [s EXCEPT !.pc = "stalled", !.aborted = call]

\* A routine is called: up to its await pool.connect().
Call(s, routine, arg, tbls) ==
  [s EXCEPT !.pc = "db",
            !.calls = Append(@, [routine |-> routine, arg |-> arg,
                                 outcome |-> "running", error |-> "",
                                 before |-> tbls, after |-> tbls,
                                 writes |-> <<>>, conn |-> "none",
                                 log |-> <<>>, releases |-> 0]),
            !.db = [NoDb EXCEPT !.routine = routine, !.at = "connect",
                                !.arg = arg, !.ops = OpsOf(routine, arg)]]

\* The record of the call in progress, closed with its outcome.
FinishCall(s, outcome, message, tbls) ==
  [s EXCEPT !.calls[Len(s.calls)].outcome = outcome,
            !.calls[Len(s.calls)].error = message,
            !.calls[Len(s.calls)].after = tbls,
            !.calls[Len(s.calls)].writes = s.db.pending,
            !.calls[Len(s.calls)].conn = s.db.conn,
            !.calls[Len(s.calls)].log = s.db.log,
            !.calls[Len(s.calls)].releases = s.db.releases,
            !.db = NoDb]

\* handleGetFacilitySignups, the courses step of the try block.
PersistCourses(s, tbls) ==
  LET courses == Get(s.payload, "courses") IN
  IF Truthy(courses) /\ TypeofObject(courses)
  THEN Call(s, "insertCourseInfo", courses, tbls)
  ELSE Respond200(s)

\* The response sent as soon as the payload is there, the persistence step
\* left running behind it.
AfterFetchRespondsFirst(s, tbls) ==
  LET t == [s EXCEPT !.response =
                       [status |-> 200,
                        body |-> [status |-> "success", response |-> s.payload,
                                  database |-> s.dbResults]]]
      data == Get(s.payload, "data")
  IN IF IsNullish(s.payload)
     THEN Respond500(s, "Cannot convert undefined or null to object")
     ELSE IF s.handler = "signups"
     THEN IF Truthy(data) /\ IsArray(data)
          THEN Call(t, "insertFacilitySignups", data, tbls)
          ELSE PersistCourses(t, tbls)
     ELSE IF Truthy(data) /\ IsArray(data)
          THEN Call(t, "insertElearningCodes", data, tbls)
          ELSE Respond200(t)

\* Both handlers from the arrival of the resource payload to the first await
\* of the persistence step, or to the response.
AfterFetch(s, tbls) ==
  IF IsNullish(s.payload)
  THEN Respond500(s, "Cannot convert undefined or null to object")
  ELSE LET data == Get(s.payload, "data") IN
    IF s.handler = "signups"
    THEN IF Truthy(data) /\ IsArray(data)
         THEN Call(s, "insertFacilitySignups", data, tbls)
         ELSE PersistCourses(s, tbls)
    ELSE IF Truthy(data) /\ IsArray(data)
         THEN Call(s, "insertElearningCodes", data, tbls)
         ELSE Respond200(s)

ResultKey(routine) ==
  CASE routine = "insertFacilitySignups" -> "users"
    [] routine = "insertCourseInfo" -> "courses"
    [] routine = "insertElearningCodes" -> "elearning_codes"

\* The handler after a routine has returned `result`.
AfterReturn(s, result, tbls) ==
  LET routine == s.db.routine
      t == [FinishCall(s, "returned", "", tbls) EXCEPT
              !.dbResults = (ResultKey(routine) :> result) @@ @]
  IN IF routine = "insertFacilitySignups" THEN PersistCourses(t, tbls)
     ELSE Respond200(t)

\* A failure recorded under the key of its record kind.
ErrorKeyPerKind(routine) == ResultKey(routine)

\* The key of the result map under which the inner catch records a failure.
ErrorKey(routine) == "error"

\* A catch per record kind: after a failed user upsert the courses step
\* still runs.
AfterThrowPerKind(s, message, tbls) ==
  LET t == [FinishCall(s, "threw", message, tbls) EXCEPT
              !.dbResults = (ErrorKey(s.db.routine) :> message) @@ @]
  IN IF s.db.routine = "insertFacilitySignups" THEN PersistCourses(t, tbls)
     ELSE Respond200(t)

\* The handler after a routine has thrown: the inner catch, then the response.
AfterThrow(s, message, tbls) ==
  Respond200([FinishCall(s, "threw", message, tbls) EXCEPT
                !.dbResults = (ErrorKey(s.db.routine) :> message) @@ @])

(***************************************************************************)
(* Inputs: what the portal and the auth broker can answer, and what the    *)
(* tables can hold when an invocation arrives.                             *)
(***************************************************************************)
MaxRecords == 2

BoundedSeqs(S, n) == UNION {[1..m -> S] : m \in 0..n}

CookieSets ==
  {EmptyObject,
   Obj([ITIAuthToken |-> Str("abc")]),
   Obj([ITIAuthToken |-> Str("abc"), PORTALSESSID |-> Str("sess")])}

XsrfTokens == {Str(""), Str("xyz")}

NestedEnvelope(C, X) == Obj([response |-> Obj([cookies |-> C, xsrf |-> X])])

FlatEnvelope(C, X) == Obj([cookies |-> C, xsrf |-> X])

RawWrapper(text) == Obj([raw |-> Str(text)])

AuthResponses ==
  {NestedEnvelope(C, X) : C \in CookieSets, X \in XsrfTokens}
    \cup {FlatEnvelope(C, X) : C \in CookieSets, X \in XsrfTokens}
    \cup {Null, RawWrapper("<html>"), EmptyObject, Str("ok"),
          Obj([error |-> Str("denied")]),
          Obj([response |-> Obj([xsrf |-> Str("xyz")])]),
          Obj([cookies |-> Obj([ITIAuthToken |-> Str("abc")]),
               response |-> Obj([xsrf |-> Str("other")])])}

u0 == Obj([user_id |-> Num(1), username |-> Str("old"), created_at |-> Str("t0")])

u1 == Obj([user_id |-> Num(1), username |-> Str("ann"), created_at |-> Str("t1")])

u1b ==
  Obj([user_id |-> Num(1), username |-> Str("ann2"), created_at |-> Str("t2"),
       updated_at |-> Str("t3"), status_id |-> Num(2)])

u2 ==
  Obj([user_id |-> Num(2), username |-> Str("bob"), created_at |-> Str("t1"),
       updated_at |-> Null, login_count |-> Null, status_id |-> Num(0)])

Users == {u1, u1b, u2}

DataArrays ==
  {Arr(a) : a \in BoundedSeqs(Users, MaxRecords)} \cup {Arr(<<u1, Null>>)}

c0 ==
  Obj([course_id |-> Num(10), agency |-> Str("AgencyA"), agency_id |-> Num(1),
       label |-> Str("Old label")])

c1 ==
  Obj([course_id |-> Num(10), agency |-> Str("AgencyA"), agency_id |-> Num(1),
       label |-> Str("Open Water")])

c1b ==
  Obj([course_id |-> Num(10), agency |-> Str("AgencyB"), agency_id |-> Num(2),
       label |-> Str("Open Water Diver")])

c2 ==
  Obj([course_id |-> Num(20), agency |-> Str("AgencyA"), agency_id |-> Num(1),
       label |-> Str("Nitrox")])

CourseMaps ==
  {OrderedObj(<<>>, <<>>),
   OrderedObj(<<"AgencyA">>, [AgencyA |-> Arr(<<c1>>)]),
   OrderedObj(<<"AgencyA", "AgencyB">>,
              [AgencyA |-> Arr(<<c1, c2>>), AgencyB |-> Arr(<<c1b>>)]),
   OrderedObj(<<"AgencyA", "AgencyB">>,
              [AgencyA |-> Arr(<<c1>>), AgencyB |-> Num(5)]),
   Arr(<<Arr(<<c2>>)>>)}

\* An object with the given `data` and `courses`; Undefined leaves the key out.
Payload(data, courses) ==
  Obj((IF data = Undefined THEN <<>> ELSE [data |-> data])
        @@ (IF courses = Undefined THEN <<>> ELSE [courses |-> courses]))

SignupPayloads ==
  {Payload(d, c) : d \in DataArrays \cup {Undefined, Str("none")},
                   c \in CourseMaps \cup {Undefined, Str("none")}}
    \cup {Null, RawWrapper("<html>")}

e0 ==
  Obj([id |-> Num(1), user_id |-> Num(1), course_id |-> Num(10),
       signup_code |-> Str("OLD"), created_at |-> Str("t0")])

e1 ==
  Obj([id |-> Num(1), user_id |-> Num(1), course_id |-> Num(10),
       signup_code |-> Str("AAA"), created_at |-> Str("t1")])

e1b ==
  Obj([id |-> Num(1), user_id |-> Num(2), course_id |-> Num(20),
       signup_code |-> Str("BBB"), created_at |-> Str("t2"), status_id |-> Num(3)])

e2 == Obj([id |-> Num(2), user_id |-> Num(9), signup_code |-> Str("CCC")])

Codes == {e1, e1b, e2}

CodePayloads ==
  {Payload(d, Undefined) :
     d \in {Arr(a) : a \in BoundedSeqs(Codes, MaxRecords)}
             \cup {Arr(<<e1, Null>>), Undefined, Str("none")}}
    \cup {Null, RawWrapper("<html>")}

Payloads(handler) == IF handler = "signups" THEN SignupPayloads ELSE CodePayloads

EmptyTables ==
  [get_facility_signups |-> {}, course_info |-> {}, get_elearning_codes |-> {}]

\* Tables as an earlier ingestion has left them.
LoadedTables ==
  [get_facility_signups |-> {SignupValues(u0)},
   course_info |-> {CourseValues(c0)},
   get_elearning_codes |-> {CodeValues(e0)}]

Invocations == {"r1"}

Conns == {"c1"}

HttpIdle == [fn |-> "none"]

(***************************************************************************)
(* The webhook handlers, one action per resumption of the async function.  *)
(***************************************************************************)
\* From the arrival of the request to the first await: the configuration
\* checks, then makeExternalRequest up to req.end() (or its rejection of an
\* unparseable URL, which the outer catch answers).
ReceiveStep(s, h) ==
  LET t == [s EXCEPT !.handler = h] IN
  IF ValidateEnv(env) # "" THEN Respond500(t, ValidateEnv(env))
  ELSE IF ~UrlParses(env.EXTERNAL_WEBHOOK_URL[2])
  THEN Reject(t, "auth", InvalidUrlMessage(env.EXTERNAL_WEBHOOK_URL[2]))
  ELSE [t EXCEPT !.pc = "auth",
                 !.outbound = Append(@, AuthRequest(env.EXTERNAL_WEBHOOK_URL[2],
                                                    env.FACILITY_ID))]

Receive(i, h) ==
  /\ inv[i].pc = "idle"
  /\ inv' = [inv EXCEPT ![i] = ReceiveStep(inv[i], h)]
  /\ UNCHANGED <<env, tables, conns, http>>

\* The authentication call resolves: session extraction, then the resource
\* request up to req.end().
AuthResolveStep(s, externalResponse) ==
  LET t == [s EXCEPT !.externalResponse = externalResponse]
      x == ExtractSession(s.handler, externalResponse)
  IN IF x.threw THEN Respond500(t, x.error)
     ELSE [t EXCEPT !.pc = "fetch",
                    !.outbound = Append(@, ResourceRequest(s.handler, env.FACILITY_ID,
                                                           x.cookies, x.xsrf))]

AuthResolve(i) ==
  /\ inv[i].pc = "auth"
  /\ \E r \in AuthResponses : inv' = [inv EXCEPT ![i] = AuthResolveStep(inv[i], r)]
  /\ UNCHANGED <<env, tables, conns, http>>

\* A failed authentication call treated as an unauthenticated session: the
\* resource request goes out with the empty credential.
AuthRejectThenFetch(i) ==
  /\ inv[i].pc = "auth"
  /\ inv' = [inv EXCEPT ![i] =
               [inv[i] EXCEPT !.rejected = "auth", !.pc = "fetch",
                              !.outbound =
                                Append(@, ResourceRequest(inv[i].handler,
                                                          env.FACILITY_ID,
                                                          EmptyObject, Str("")))]]
  /\ UNCHANGED <<env, tables, conns, http>>

\* req.on('error') of the authentication call.
AuthReject(i) ==
  /\ inv[i].pc = "auth"
  /\ inv' = [inv EXCEPT ![i] = Reject(inv[i], "auth", NetworkErrorMessage)]
  /\ UNCHANGED <<env, tables, conns, http>>

\* The authentication call's response is cut short.
AuthAbort(i) ==
  /\ inv[i].pc = "auth"
  /\ inv' = [inv EXCEPT ![i] = Abort(inv[i], "auth")]
  /\ UNCHANGED <<env, tables, conns, http>>

FetchResolve(i) ==
  /\ inv[i].pc = "fetch"
  /\ \E p \in Payloads(inv[i].handler) :
       inv' = [inv EXCEPT ![i] = AfterFetch([inv[i] EXCEPT !.payload = p], tables)]
  /\ UNCHANGED <<env, tables, conns, http>>

\* A failed resource call treated as an empty payload: the persistence step
\* runs on {}.
FetchRejectThenPersist(i) ==
  /\ inv[i].pc = "fetch"
  /\ inv' = [inv EXCEPT ![i] =
               AfterFetch([inv[i] EXCEPT !.rejected = "fetch",
                                         !.payload = EmptyObject], tables)]
  /\ UNCHANGED <<env, tables, conns, http>>

\* req.on('error') of the resource call.
FetchReject(i) ==
  /\ inv[i].pc = "fetch"
  /\ inv' = [inv EXCEPT ![i] = Reject(inv[i], "fetch", NetworkErrorMessage)]
  /\ UNCHANGED <<env, tables, conns, http>>

\* The resource call's response is cut short.
FetchAbort(i) ==
  /\ inv[i].pc = "fetch"
  /\ inv' = [inv EXCEPT ![i] = Abort(inv[i], "fetch")]
  /\ UNCHANGED <<env, tables, conns, http>>

(***************************************************************************)
(* The upsert routines, one action per awaited call on the pool or the     *)
(* client.  Each awaited call either resolves or rejects.  Statements of   *)
(* an open transaction are held in db.pending; COMMIT makes them visible.  *)
(***************************************************************************)
InRoutine(i, at) == inv[i].pc = "db" /\ inv[i].db.at = at

\* A finally block that leaves the client checked out.
ReleaseNothing(c) == conns

\* client.release() in the finally block: the pool has the client back.
Release(c) == [conns EXCEPT ![c].owner = "none"]

\* The routine's side of the finally block: one call of client.release().
Released(s) == [s EXCEPT !.db.releases = @ + 1]

\* A load that replaces the table's rows by the transaction's.
CommitReplacesTable(routine, tbls, pending) ==
  [tbls EXCEPT ![TableOf(routine)] = ApplyAll(routine, {}, pending)]

\* What COMMIT leaves in the tables.
CommitTables(routine, tbls, pending) ==
  [tbls EXCEPT ![TableOf(routine)] = ApplyAll(routine, @, pending)]

\* The statements of the failed transaction staying visible.
RollbackKeepsWrites(routine, tbls, pending) ==
  [tbls EXCEPT ![TableOf(routine)] = ApplyAll(routine, @, pending)]

\* What ROLLBACK leaves in the tables.
RollbackTables(routine, tbls, pending) == tbls

\* await pool.connect(), before the try block: a rejection leaves the
\* routine with no client to release.
DbConnect(i) ==
  /\ InRoutine(i, "connect")
  /\ \/ \E c \in DOMAIN conns :
          /\ conns[c].owner = "none"
          /\ conns' = [conns EXCEPT ![c].owner = i]
          /\ inv' = [inv EXCEPT ![i].db.conn = c, ![i].db.at = "BEGIN",
                                ![i].db.savedRole = conns[c].role]
     \/ /\ inv' = [inv EXCEPT ![i] = AfterThrow(inv[i], "connect failed", tables)]
        /\ UNCHANGED conns
  /\ UNCHANGED <<env, tables, http>>

\* await client.query('BEGIN')
DbBegin(i) ==
  /\ InRoutine(i, "BEGIN")
  /\ LET d == Issued(inv[i].db, "BEGIN") IN
     \/ inv' = [inv EXCEPT ![i].db =
                  IF d.routine = "insertElearningCodes"
                  THEN [d EXCEPT !.at = "SET_replica"] ELSE Advance(d)]
     \/ inv' = [inv EXCEPT ![i].db = Catch(d, StatementErrorMessage("BEGIN"))]
  /\ UNCHANGED <<env, tables, conns, http>>

\* await client.query('SET session_replication_role = replica;')
DbSetReplica(i) ==
  /\ InRoutine(i, "SET_replica")
  /\ LET d == Issued(inv[i].db, "SET_replica") IN
     \/ /\ inv' = [inv EXCEPT ![i].db = Advance(d)]
        /\ conns' = [conns EXCEPT ![d.conn].role = "replica"]
     \/ /\ inv' = [inv EXCEPT ![i].db = Catch(d, StatementErrorMessage("SET"))]
        /\ UNCHANGED conns
  /\ UNCHANGED <<env, tables, http>>

\* await client.query(insertQuery, values) for element k, then the loop up
\* to its next await.
DbQuery(i) ==
  /\ InRoutine(i, "query")
  /\ LET d == Issued(inv[i].db, "INSERT") IN
     \/ inv' = [inv EXCEPT ![i].db =
                  Advance([d EXCEPT !.pending = Append(@, d.ops[d.k].values),
                                    !.k = @ + 1,
                                    !.totalCourses =
                                      IF d.routine = "insertCourseInfo"
                                      THEN @ + 1 ELSE @])]
     \/ inv' = [inv EXCEPT ![i].db = Catch(d, StatementErrorMessage("INSERT"))]
  /\ UNCHANGED <<env, tables, conns, http>>

\* await client.query('SET session_replication_role = DEFAULT;')
DbSetDefault(i) ==
  /\ InRoutine(i, "SET_default")
  /\ LET d == Issued(inv[i].db, "SET_default") IN
     \/ /\ inv' = [inv EXCEPT ![i].db = [d EXCEPT !.at = "COMMIT"]]
        /\ conns' = [conns EXCEPT ![d.conn].role = "origin"]
     \/ /\ inv' = [inv EXCEPT ![i].db = Catch(d, StatementErrorMessage("SET"))]
        /\ UNCHANGED conns
  /\ UNCHANGED <<env, tables, http>>

\* await client.query('COMMIT'); on success the routine returns through its
\* finally block and the handler runs on to its next await or its response.
DbCommit(i) ==
  /\ InRoutine(i, "COMMIT")
  /\ LET d == Issued(inv[i].db, "COMMIT")
         s == [inv[i] EXCEPT !.db = d] IN
     \/ LET after == CommitTables(d.routine, tables, d.pending) IN
        /\ tables' = after
        /\ conns' = Release(d.conn)
        /\ inv' = [inv EXCEPT ![i] =
                     AfterReturn(Released(s),
                                 RoutineResult(d.routine, ReportedCount(d)), after)]
     \/ /\ inv' = [inv EXCEPT ![i].db = Catch(d, StatementErrorMessage("COMMIT"))]
        /\ UNCHANGED <<tables, conns>>
  /\ UNCHANGED <<env, http>>

\* One transaction per invocation: a ROLLBACK that takes the tables back to
\* where the invocation's first routine found them.
DbRollbackWholeInvocation(i) ==
  /\ InRoutine(i, "ROLLBACK")
  /\ LET d == Issued(inv[i].db, "ROLLBACK")
         s == Released([inv[i] EXCEPT !.db = d])
         after == inv[i].calls[1].before IN
     /\ tables' = after
     /\ conns' = [Release(d.conn) EXCEPT ![d.conn].role = d.savedRole]
     /\ inv' = [inv EXCEPT ![i] = AfterThrow(s, d.error, after)]
  /\ UNCHANGED <<env, http>>

\* await client.query('ROLLBACK') in the catch block, then throw and the
\* finally block.  ROLLBACK undoes the transaction's SET with its writes.  A
\* rejected ROLLBACK throws its own error instead; the session is then either
\* left as the failed statement found it, or lost, in which case the pool
\* opens a new one in its place.
DbRollback(i) ==
  /\ InRoutine(i, "ROLLBACK")
  /\ LET d == Issued(inv[i].db, "ROLLBACK")
         s == Released([inv[i] EXCEPT !.db = d])
         after == RollbackTables(d.routine, tables, d.pending) IN
     /\ tables' = after
     /\ \/ /\ conns' = [Release(d.conn) EXCEPT ![d.conn].role = d.savedRole]
           /\ inv' = [inv EXCEPT ![i] = AfterThrow(s, d.error, after)]
        \/ /\ conns' \in {Release(d.conn),
                          [Release(d.conn) EXCEPT ![d.conn].role = "origin"]}
           /\ inv' = [inv EXCEPT ![i] =
                        AfterThrow(s, StatementErrorMessage("ROLLBACK"), after)]
  /\ UNCHANGED <<env, http>>

(***************************************************************************)
(* The response handling shared by makeExternalRequest,                    *)
(* makeFacilitySignupsRequest and makeElearningCodesRequest: the body      *)
(* arrives as Buffer chunks, each appended to a string, and is parsed at   *)
(* 'end'.  A body is a sequence of bytes, a text a sequence of code points.*)
(***************************************************************************)
MaxBodyLen == 3

RequestFunctions ==
  {"makeExternalRequest", "makeFacilitySignupsRequest", "makeElearningCodesRequest"}

\* The bytes of [ ] 1 " and of the two-byte character U+00E9 (C3 A9).
Bytes == {91, 93, 49, 34, 195, 169}

IsLead2(b) == b >= 194 /\ b <= 223

IsContinuation(b) == b >= 128 /\ b <= 191

ReplacementChar == 65533

\* chunk.toString(): UTF-8 decoding of one Buffer on its own (one- and
\* two-byte sequences); a byte that does not start a complete sequence
\* within the buffer decodes to U+FFFD.
RECURSIVE Utf8Decode(_)
Utf8Decode(b) ==
  IF b = <<>> THEN <<>>
  ELSE IF b[1] < 128 THEN <<b[1]>> \o Utf8Decode(Tail(b))
  ELSE IF IsLead2(b[1]) /\ Len(b) >= 2 /\ IsContinuation(b[2])
  THEN <<(b[1] - 192) * 64 + (b[2] - 128)>> \o Utf8Decode(SubSeq(b, 3, Len(b)))
  ELSE <<ReplacementChar>> \o Utf8Decode(Tail(b))

RECURSIVE DigitsValue(_)
DigitsValue(n) == IF n = 0 THEN 0 ELSE 10 * DigitsValue(n - 1) + 1

ParseFailure == [ok |-> FALSE, value |-> Undefined, next |-> 0]

Parsed(value, next) == [ok |-> TRUE, value |-> value, next |-> next]

\* The index of the first position from p on where the text does not hold c.
RECURSIVE RunEnd(_, _, _)
RunEnd(t, p, c) == IF p <= Len(t) /\ t[p] = c THEN RunEnd(t, p + 1, c) ELSE p

\* The index of the first c from p on, or 0.
RECURSIVE IndexOf(_, _, _)
IndexOf(t, p, c) ==
  IF p > Len(t) THEN 0 ELSE IF t[p] = c THEN p ELSE IndexOf(t, p + 1, c)

\* JSON.parse on the texts over the characters above: numbers (runs of the
\* digit 1), strings (no escapes), arrays.
RECURSIVE ParseValue(_, _)
RECURSIVE ParseElements(_, _, _)
ParseValue(t, p) ==
  IF p > Len(t) THEN ParseFailure
  ELSE IF t[p] = 49
  THEN Parsed(Num(DigitsValue(RunEnd(t, p, 49) - p)), RunEnd(t, p, 49))
  ELSE IF t[p] = 34
  THEN IF IndexOf(t, p + 1, 34) = 0 THEN ParseFailure
       ELSE Parsed(Str(SubSeq(t, p + 1, IndexOf(t, p + 1, 34) - 1)),
                   IndexOf(t, p + 1, 34) + 1)
  ELSE IF t[p] = 91
  THEN IF p + 1 <= Len(t) /\ t[p + 1] = 93 THEN Parsed(Arr(<<>>), p + 2)
       ELSE ParseElements(t, p + 1, <<>>)
  ELSE ParseFailure

ParseElements(t, p, acc) ==
  LET r == ParseValue(t, p) IN
  IF ~r.ok \/ r.next > Len(t) THEN ParseFailure
  ELSE IF t[r.next] = 93 THEN Parsed(Arr(Append(acc, r.value)), r.next + 1)
  ELSE IF t[r.next] = 44 THEN ParseElements(t, r.next + 1, Append(acc, r.value))
  ELSE ParseFailure

\* JSON.parse(text): the value, or ok = FALSE for a SyntaxError.
JsonParse(t) ==
  LET r == ParseValue(t, 1) IN
  IF r.ok /\ r.next = Len(t) + 1 THEN r ELSE ParseFailure

\* res.on('end'): resolve(JSON.parse(responseData)), or in the catch
\* resolve({raw: responseData}).
EndValue(responseData) ==
  IF JsonParse(responseData).ok THEN JsonParse(responseData).value
  ELSE Obj([raw |-> Str(responseData)])

\* res.on('data'): responseData += chunk, for the next n bytes of the body.
OnData ==
  /\ http.settled = "pending"
  /\ \E n \in 1..(Len(http.body) - http.received) :
       LET chunk == SubSeq(http.body, http.received + 1, http.received + n) IN
       http' = [http EXCEPT !.received = @ + n,
                            !.responseData = @ \o Utf8Decode(chunk)]
  /\ UNCHANGED <<env, inv, tables, conns>>

\* res.on('end'), once the whole body has been delivered.
OnEnd ==
  /\ http.settled = "pending"
  /\ http.received = Len(http.body)
  /\ http' = [http EXCEPT !.settled = "resolved",
                          !.value = EndValue(http.responseData)]
  /\ UNCHANGED <<env, inv, tables, conns>>

\* req.on('error'): the request fails before the response has ended.
OnError ==
  /\ http.settled = "pending"
  /\ http' = [http EXCEPT !.settled = "rejected"]
  /\ UNCHANGED <<env, inv, tables, conns>>

\* The connection closes before the whole body has arrived: the response is
\* destroyed, its 'aborted' and 'error' events find no listener, and neither
\* res.on('end') nor req.on('error') runs afterwards.
OnAborted ==
  /\ http.settled = "pending"
  /\ http.received < Len(http.body)
  /\ http' = [http EXCEPT !.settled = "never"]
  /\ UNCHANGED <<env, inv, tables, conns>>

InitHttp ==
  /\ env = [FACILITY_ID |-> Str("F-1"), EXTERNAL_WEBHOOK_URL |-> Str(GoodUrl),
            DATABASE_URL |-> Str("F-1")]
  /\ inv = [i \in Invocations |-> Idle]
  /\ tables = EmptyTables
  /\ conns = [c \in Conns |-> [owner |-> "none", role |-> "origin"]]
  /\ \E fn \in RequestFunctions, body \in BoundedSeqs(Bytes, MaxBodyLen) :
       http = [fn |-> fn, body |-> body, received |-> 0, responseData |-> <<>>,
               settled |-> "pending", value |-> Undefined]

NextHttp == OnData \/ OnEnd \/ OnError \/ OnAborted

SpecHttp == InitHttp /\ [][NextHttp]_vars

(***************************************************************************)
(* The specification of one webhook invocation.                            *)
(***************************************************************************)
Init ==
  /\ env \in [FACILITY_ID : EnvValues, EXTERNAL_WEBHOOK_URL : UrlValues,
              DATABASE_URL : EnvValues]
  /\ inv = [i \in Invocations |-> Idle]
  /\ tables \in {EmptyTables, LoadedTables}
  /\ conns = [c \in Conns |-> [owner |-> "none", role |-> "origin"]]
  /\ http = HttpIdle

Next ==
  \E i \in Invocations :
    \/ \E h \in Handlers : Receive(i, h)
    \/ AuthResolve(i)
    \/ AuthReject(i)
    \/ AuthAbort(i)
    \/ FetchResolve(i)
    \/ FetchReject(i)
    \/ FetchAbort(i)
    \/ DbConnect(i)
    \/ DbBegin(i)
    \/ DbSetReplica(i)
    \/ DbQuery(i)
    \/ DbSetDefault(i)
    \/ DbCommit(i)
    \/ DbRollback(i)

Spec == Init /\ [][Next]_vars

(***************************************************************************)
(* Concurrent invocations: the handlers are async functions on one event   *)
(* loop, so the steps of two invocations interleave at every await; they   *)
(* share the pool and the tables.  A transaction's statements take effect  *)
(* at its COMMIT: a statement on a key another open transaction has        *)
(* written waits for that transaction to end and then acts on the row it   *)
(* left, which is the row order of the commits.                            *)
(***************************************************************************)
ConcInvocations == {"r1", "r2"}

ConcConns == {"c1", "c2"}

\* What the auth broker answers to two logins: two different sessions.
ConcAuthResponses ==
  {NestedEnvelope(Obj([ITIAuthToken |-> Str("abc")]), Str("xyz")),
   NestedEnvelope(Obj([ITIAuthToken |-> Str("def")]), Str("uvw"))}

ConcPayloads(handler) ==
  IF handler = "signups"
  THEN {Payload(Arr(<<u1>>), OrderedObj(<<"AgencyA">>, [AgencyA |-> Arr(<<c1>>)])),
        Payload(Arr(<<u1b, u2>>), Undefined)}
  ELSE {Payload(Arr(<<e1b>>), Undefined), Payload(Arr(<<e2>>), Undefined)}

\* One invocation's authentication call resolving with a session that an
\* earlier invocation obtained, as a credential kept in module scope would.
ConcAuthResolveSharedSession(i) ==
  /\ inv[i].pc = "auth"
  /\ \E r \in ConcAuthResponses :
       LET earlier == {j \in DOMAIN inv : j # i /\ inv[j].externalResponse # Undefined}
           used == IF earlier = {} THEN r
                   ELSE inv[CHOOSE j \in earlier : TRUE].externalResponse
           x == ExtractSession(inv[i].handler, used)
       IN inv' = [inv EXCEPT ![i] =
                    [inv[i] EXCEPT !.externalResponse = r, !.pc = "fetch",
                                   !.outbound =
                                     Append(@, ResourceRequest(inv[i].handler,
                                                               env.FACILITY_ID,
                                                               x.cookies, x.xsrf))]]
  /\ UNCHANGED <<env, tables, conns, http>>

ConcAuthResolve(i) ==
  /\ inv[i].pc = "auth"
  /\ \E r \in ConcAuthResponses :
       inv' = [inv EXCEPT ![i] = AuthResolveStep(inv[i], r)]
  /\ UNCHANGED <<env, tables, conns, http>>

ConcFetchResolve(i) ==
  /\ inv[i].pc = "fetch"
  /\ \E p \in ConcPayloads(inv[i].handler) :
       inv' = [inv EXCEPT ![i] = AfterFetch([inv[i] EXCEPT !.payload = p], tables)]
  /\ UNCHANGED <<env, tables, conns, http>>

InitConc ==
  /\ env = [FACILITY_ID |-> Str("F-1"), EXTERNAL_WEBHOOK_URL |-> Str(GoodUrl),
            DATABASE_URL |-> Str("F-1")]
  /\ inv = [i \in ConcInvocations |-> Idle]
  /\ tables = LoadedTables
  /\ conns = [c \in ConcConns |-> [owner |-> "none", role |-> "origin"]]
  /\ http = HttpIdle

NextConc ==
  \E i \in ConcInvocations :
    \/ \E h \in Handlers : Receive(i, h)
    \/ ConcAuthResolve(i)
    \/ AuthReject(i)
    \/ AuthAbort(i)
    \/ ConcFetchResolve(i)
    \/ FetchReject(i)
    \/ FetchAbort(i)
    \/ DbConnect(i)
    \/ DbBegin(i)
    \/ DbSetReplica(i)
    \/ DbQuery(i)
    \/ DbSetDefault(i)
    \/ DbCommit(i)
    \/ DbRollback(i)

SpecConc == InitConc /\ [][NextConc]_vars

(***************************************************************************)
(* One invocation, on the sessions and payloads of the concurrent          *)
(* specification, under the scheduling the event loop gives it: an         *)
(* outbound call that is in flight eventually ends in one of the ways its  *)
(* connection can end (a complete body, an error on the request, a         *)
(* response cut short), and an awaited call on the pool or the client      *)
(* eventually resolves or rejects.                                         *)
(***************************************************************************)
OutboundEnds(i) ==
  \/ ConcAuthResolve(i)
  \/ AuthReject(i)
  \/ AuthAbort(i)
  \/ ConcFetchResolve(i)
  \/ FetchReject(i)
  \/ FetchAbort(i)

DatabaseEnds(i) ==
  \/ DbConnect(i)
  \/ DbBegin(i)
  \/ DbSetReplica(i)
  \/ DbQuery(i)
  \/ DbSetDefault(i)
  \/ DbCommit(i)
  \/ DbRollback(i)

Fairness ==
  \A i \in Invocations : WF_vars(OutboundEnds(i)) /\ WF_vars(DatabaseEnds(i))

InitLive ==
  /\ env = [FACILITY_ID |-> Str("F-1"), EXTERNAL_WEBHOOK_URL |-> Str(GoodUrl),
            DATABASE_URL |-> Str("F-1")]
  /\ inv = [i \in Invocations |-> Idle]
  /\ tables \in {EmptyTables, LoadedTables}
  /\ conns = [c \in Conns |-> [owner |-> "none", role |-> "origin"]]
  /\ http = HttpIdle

NextLive ==
  \E i \in Invocations :
    \/ \E h \in Handlers : Receive(i, h)
    \/ ConcAuthResolve(i)
    \/ AuthReject(i)
    \/ AuthAbort(i)
    \/ ConcFetchResolve(i)
    \/ FetchReject(i)
    \/ FetchAbort(i)
    \/ DbConnect(i)
    \/ DbBegin(i)
    \/ DbSetReplica(i)
    \/ DbQuery(i)
    \/ DbSetDefault(i)
    \/ DbCommit(i)
    \/ DbRollback(i)

SpecLive == InitLive /\ [][NextLive]_vars /\ Fairness

(***************************************************************************)
(* Properties of the handlers.                                             *)
(***************************************************************************)
Settings == {"FACILITY_ID", "EXTERNAL_WEBHOOK_URL", "DATABASE_URL"}

\* A setting that is absent (or empty).
Missing(v) == v \in {Undefined, Str("")}

Status(i) == inv[i].response.status

Answered(i) == inv[i].pc = "done"

\* The authentication call has resolved (JSON.parse never yields undefined).
AuthResolved(i) == inv[i].externalResponse # Undefined

\* The resource call has resolved.
Fetched(i) == inv[i].payload # Undefined

\* C1: in both resource webhooks, when a required setting is missing the
\* invocation ends with HTTP 500 and a message naming a missing setting, and
\* it makes no outbound HTTP call and no upsert call.
C1_ConfigMissing ==
  \A i \in Invocations :
    (inv[i].pc # "idle" /\ \E n \in Settings : Missing(env[n]))
      => /\ Answered(i)
         /\ Status(i) = 500
         /\ inv[i].response.body.status = "error"
         /\ \E n \in Settings :
              /\ Missing(env[n])
              /\ inv[i].response.body.error = MissingMessage(n)
         /\ inv[i].outbound = <<>>
         /\ inv[i].calls = <<>>

C1_Witness ==
  \E i \in Invocations :
    /\ Answered(i)
    /\ env.FACILITY_ID = Str("F-1")
    /\ env.EXTERNAL_WEBHOOK_URL = Str(GoodUrl)
    /\ env.DATABASE_URL = Undefined
    /\ Status(i) = 500

\* C2 (as claimed): once the resource fetch has returned a payload, the
\* invocation ends with HTTP 200 and the body {status: "success", response:
\* the payload unchanged, database: the result map}.
C2_AlwaysSuccessAfterFetch ==
  \A i \in Invocations :
    (Answered(i) /\ Fetched(i))
      => /\ Status(i) = 200
         /\ inv[i].response.body.status = "success"
         /\ inv[i].response.body.response = inv[i].payload
         /\ inv[i].response.body.database = inv[i].dbResults

\* The calls of invocation i to one routine.
CallsTo(i, routine) ==
  {n \in 1..Len(inv[i].calls) : inv[i].calls[n].routine = routine}

\* The user upsert returned on a 2-record array and the course upsert threw.
CourseUpsertFailedAfterUsers(i) ==
  /\ Answered(i)
  /\ Len(inv[i].calls) = 2
  /\ inv[i].calls[1].routine = "insertFacilitySignups"
  /\ inv[i].calls[1].outcome = "returned"
  /\ Len(inv[i].calls[1].arg[2]) = 2
  /\ inv[i].calls[2].routine = "insertCourseInfo"
  /\ inv[i].calls[2].outcome = "threw"

BothKindsPresent(i) ==
  /\ Fetched(i)
  /\ inv[i].handler = "signups"
  /\ ~IsNullish(inv[i].payload)
  /\ IsArray(Get(inv[i].payload, "data"))
  /\ Get(inv[i].payload, "courses")[1] \in {"obj", "arr"}

FetchedWith(i, C, X) ==
  /\ Len(inv[i].outbound) = 2
  /\ inv[i].outbound[2].kind = inv[i].handler
  /\ inv[i].outbound[2].cookies = C
  /\ inv[i].outbound[2].xsrf = X

\* C5 (as claimed): in both handlers, an authentication response in the
\* nested envelope {response: {cookies: C, xsrf: X}} and one in the flat
\* envelope {cookies: C, xsrf: X} both yield the credential (C, X), and the
\* invocation goes on to the resource fetch with it.
C5_EnvelopesAgree ==
  \A i \in Invocations : \A C \in CookieSets, X \in XsrfTokens :
    (AuthResolved(i)
       /\ inv[i].externalResponse \in {NestedEnvelope(C, X), FlatEnvelope(C, X)})
      => FetchedWith(i, C, X)

\* An object with a truthy response.cookies.
MatchesNested(r) ==
  /\ r[1] = "obj"
  /\ Get(r, "response")[1] = "obj"
  /\ Truthy(Get(Get(r, "response"), "cookies"))

\* An object with a truthy cookies.
MatchesFlat(r) == r[1] = "obj" /\ Truthy(Get(r, "cookies"))

\* C6 (as claimed): for every value the authentication call resolves to that
\* matches neither envelope, the credential is the empty cookie set and the
\* empty token and the invocation goes on to the resource fetch.
C6_ExtractionNeverFails ==
  \A i \in Invocations :
    (AuthResolved(i)
       /\ ~MatchesNested(inv[i].externalResponse)
       /\ ~MatchesFlat(inv[i].externalResponse))
      => FetchedWith(i, EmptyObject, Str(""))

\* The requests of invocation i of one kind ("auth", or the handler's name).
RequestsOf(i, kind) ==
  {n \in 1..Len(inv[i].outbound) : inv[i].outbound[n].kind = kind}

Range(seq) == {seq[n] : n \in 1..Len(seq)}

\* The cookie scheme as a function of (facilityId, cookies, xsrf): the four
\* session cookies by name, the facility and the token, a missing (or falsy)
\* value as the empty string.
CookieScheme(facilityId, cookies, xsrf) ==
  LET Value(v) == IF Truthy(v) THEN TemplateString(v) ELSE "" IN
  << <<"ITIAuthToken", Value(Get(cookies, "ITIAuthToken"))>>,
     <<"PORTALSESSID", Value(Get(cookies, "PORTALSESSID"))>>,
     <<"SAMLSessionID", Value(Get(cookies, "SAMLSessionID"))>>,
     <<"SelectedFacility", TemplateString(facilityId)>>,
     <<"XSRF-TOKEN", Value(xsrf)>>,
     <<"tdisdi_portal_session", Value(Get(cookies, "tdisdi_portal_session"))>> >>

\* The authentication response is {response: {cookies: C, xsrf: X}} with
\* C.ITIAuthToken and X strings.
NestedWithToken(r) ==
  /\ MatchesNested(r)
  /\ Get(Get(r, "response"), "cookies")[1] = "obj"
  /\ Get(Get(Get(r, "response"), "cookies"), "ITIAuthToken")[1] = "str"
  /\ Get(Get(r, "response"), "xsrf")[1] = "str"

\* C13: in both handlers, after an authentication response
\* {response: {cookies: C, xsrf: x}} with C.ITIAuthToken = a, the resource
\* request is made, its Cookie header holds ITIAuthToken=a and XSRF-TOKEN=x,
\* its x-csrf-token header is x, and the Cookie header of every resource
\* request of either kind is the one scheme applied to the facility id and
\* the extracted cookies and token.
C13_CredentialReplayed ==
  \A i \in Invocations :
    /\ (AuthResolved(i) /\ NestedWithToken(inv[i].externalResponse))
         => LET C == Get(Get(inv[i].externalResponse, "response"), "cookies")
                X == Get(Get(inv[i].externalResponse, "response"), "xsrf")
            IN /\ Len(inv[i].outbound) = 2
               /\ inv[i].outbound[2].kind = inv[i].handler
               /\ <<"ITIAuthToken", Get(C, "ITIAuthToken")[2]>>
                    \in Range(inv[i].outbound[2].Cookie)
               /\ <<"XSRF-TOKEN", X[2]>> \in Range(inv[i].outbound[2].Cookie)
               /\ inv[i].outbound[2].csrfHeader = X
               /\ inv[i].outbound[2].cookies = C
               /\ inv[i].outbound[2].xsrf = X
    /\ \A n \in RequestsOf(i, inv[i].handler) :
         LET req == inv[i].outbound[n] IN
         /\ req.Cookie = CookieScheme(env.FACILITY_ID, req.cookies, req.xsrf)
         /\ req.facility_uuid = env.FACILITY_ID

\* The scenario {response: {cookies: {ITIAuthToken: "abc"}, xsrf: "xyz"}} in
\* the e-learning codes handler.
C13_Witness ==
  \E i \in Invocations :
    /\ inv[i].handler = "codes"
    /\ inv[i].externalResponse =
         NestedEnvelope(Obj([ITIAuthToken |-> Str("abc")]), Str("xyz"))
    /\ Len(inv[i].outbound) = 2
    /\ inv[i].outbound[2].Cookie[1] = <<"ITIAuthToken", "abc">>
    /\ inv[i].outbound[2].Cookie[5] = <<"XSRF-TOKEN", "xyz">>
    /\ inv[i].outbound[2].csrfHeader = Str("xyz")

RECURSIVE Flatten(_)
Flatten(lists) ==
  IF lists = <<>> THEN <<>>
  ELSE (IF IsArray(Head(lists)) THEN Head(lists)[2] ELSE <<>>)
         \o Flatten(Tail(lists))

\* The records a call was given, in the order the routine reads them.
RecordsOf(call) ==
  IF call.routine = "insertCourseInfo" THEN Flatten(EntryValues(call.arg))
  ELSE call.arg[2]

\* The values of every record of the call, in order.
AllValues(call) ==
  [n \in 1..Len(RecordsOf(call)) |-> ValuesOf(call.routine, RecordsOf(call)[n])]

FinishedCalls(i) ==
  {n \in 1..Len(inv[i].calls) : inv[i].calls[n].outcome # "running"}

\* C8: each upsert routine is all-or-nothing: while it runs none of its
\* statements is visible in the tables; if it throws (a failing connect,
\* BEGIN, record K of N, SET or COMMIT) the tables are what they were before
\* the call; if it returns, its table is the table before the call with all N
\* records upserted, and the other tables are untouched.
C8_AllOrNothing ==
  \A i \in Invocations : \A n \in 1..Len(inv[i].calls) :
    LET call == inv[i].calls[n] IN
    /\ call.outcome = "running" => tables = call.before
    /\ call.outcome = "threw" => call.after = call.before
    /\ call.outcome = "returned"
         => /\ call.writes = AllValues(call)
            /\ call.after =
                 [call.before EXCEPT ![TableOf(call.routine)] =
                    ApplyAll(call.routine, @, AllValues(call))]

\* Record 2 of 2 failed after record 1 had been written in the transaction.
C8_Witness ==
  \E i \in Invocations : \E n \in FinishedCalls(i) :
    /\ inv[i].calls[n].routine = "insertFacilitySignups"
    /\ inv[i].calls[n].outcome = "threw"
    /\ inv[i].calls[n].error = StatementErrorMessage("INSERT")
    /\ inv[i].calls[n].arg = Arr(<<u2, u1>>)
    /\ inv[i].calls[n].writes = <<SignupValues(u2)>>
    /\ inv[i].calls[n].before = LoadedTables

RowsWithKey(rows, key, k) == {r \in rows : r[key] = k}

FirstIndex(records, key, k) ==
  CHOOSE n \in 1..Len(records) :
    /\ Get(records[n], key) = k
    /\ \A m \in 1..(n - 1) : Get(records[m], key) # k

LastIndex(records, key, k) ==
  CHOOSE n \in 1..Len(records) :
    /\ Get(records[n], key) = k
    /\ \A m \in (n + 1)..Len(records) : Get(records[m], key) # k

\* C9: after a Signup Record with user_id k has been upserted and a record
\* with the same user_id is upserted again, there is exactly one row with key
\* k; its columns other than user_id and created_at hold the values of the
\* last upsert and its created_at is the one the first upsert wrote.
C9_SecondUpsertWinsButCreatedAt ==
  \A i \in Invocations : \A n \in FinishedCalls(i) :
    LET call == inv[i].calls[n]
        users == call.arg[2]
        before == call.before.get_facility_signups
        after == call.after.get_facility_signups
    IN (call.routine = "insertFacilitySignups" /\ call.outcome = "returned")
         => \A m \in 1..Len(users) :
              LET k == Get(users[m], "user_id")
                  last == SignupValues(users[LastIndex(users, "user_id", k)])
                  first == SignupValues(users[FirstIndex(users, "user_id", k)])
              IN /\ Cardinality(RowsWithKey(after, "user_id", k)) = 1
                 /\ \A r \in RowsWithKey(after, "user_id", k) :
                      /\ \A c \in SignupColumns \ {"user_id", "created_at"} :
                           r[c] = last[c]
                      /\ \A b \in RowsWithKey(before, "user_id", k) :
                           r.created_at = b.created_at
                      /\ RowsWithKey(before, "user_id", k) = {}
                           => r.created_at = first.created_at

\* u1 then u1b (same user_id, other values) upserted over the row of u0.
C9_Witness ==
  \E i \in Invocations : \E n \in FinishedCalls(i) :
    /\ inv[i].calls[n].routine = "insertFacilitySignups"
    /\ inv[i].calls[n].outcome = "returned"
    /\ inv[i].calls[n].arg = Arr(<<u1, u1b>>)
    /\ inv[i].calls[n].before = LoadedTables
    /\ \E r \in tables.get_facility_signups :
         /\ r.user_id = Num(1)
         /\ r.username = Str("ann2")
         /\ r.created_at = Str("t0")

\* The defaults of insertFacilitySignups for one record: the sibling
\* timestamp created_at for updated_at and login_stamp, 0 for the numeric
\* fields, 1 for the status and level fields.
SignupDefaults(user) ==
  [updated_at |-> ToSql(Get(user, "created_at")),
   login_stamp |-> ToSql(Get(user, "created_at")),
   created_user_id |-> Num(0), updated_user_id |-> Num(0),
   instance_id |-> Num(0), prefix_id |-> Num(0), suffix_id |-> Num(0),
   gender |-> Num(0), member_number |-> Num(0), region_id |-> Num(0),
   login_count |-> Num(0),
   status_id |-> Num(1), user_level_id |-> Num(1), admin_level_id |-> Num(1)]

\* The calls of invocation i to a routine that returned.
ReturnedCalls(i, routine) ==
  {n \in FinishedCalls(i) : /\ inv[i].calls[n].routine = routine
                            /\ inv[i].calls[n].outcome = "returned"}

\* C14: in insertFacilitySignups, for every record and every optional field
\* that is missing or null in it, the statement binds the field's default,
\* and that default is what the committed row of the record holds.
C14_MissingFieldsDefaulted ==
  \A i \in Invocations : \A n \in ReturnedCalls(i, "insertFacilitySignups") :
    LET call == inv[i].calls[n]
        users == call.arg[2]
    IN \A m \in 1..Len(users) :
         \A c \in DOMAIN SignupDefaults(users[m]) :
           IsNullish(Get(users[m], c))
             => /\ call.writes[m][c] = SignupDefaults(users[m])[c]
                /\ m = LastIndex(users, "user_id", Get(users[m], "user_id"))
                     => \A r \in RowsWithKey(call.after.get_facility_signups,
                                             "user_id", Get(users[m], "user_id")) :
                          r[c] = SignupDefaults(users[m])[c]

\* u2 has updated_at and login_count null and the other optional fields but
\* status_id missing.
C14_Witness ==
  \E i \in Invocations : \E n \in ReturnedCalls(i, "insertFacilitySignups") :
    /\ inv[i].calls[n].arg = Arr(<<u2>>)
    /\ \E r \in tables.get_facility_signups :
         /\ r.user_id = Num(2)
         /\ r.updated_at = Str("t1")
         /\ r.login_stamp = Str("t1")
         /\ r.login_count = Num(0)
         /\ r.user_level_id = Num(1)

\* The fields of a record that are present with a non-null value.
PresentFields(record, columns) ==
  {c \in columns : c \in DOMAIN record[2] /\ ~IsNullish(record[2][c])}

\* C15 (as claimed): in insertFacilitySignups and insertElearningCodes every
\* field present with a non-null value in the input record, 0 and "" included,
\* is bound to the statement with exactly that value.
C15_PresentValuesKept ==
  \A i \in Invocations :
    \A routine \in {"insertFacilitySignups", "insertElearningCodes"} :
      \A n \in ReturnedCalls(i, routine) :
        LET call == inv[i].calls[n] IN
        \A m \in 1..Len(call.arg[2]) :
          \A c \in PresentFields(call.arg[2][m], DOMAIN call.writes[m]) :
            call.writes[m][c] = call.arg[2][m][2][c]

RECURSIVE TotalEntries(_)
TotalEntries(lists) ==
  IF lists = <<>> THEN 0
  ELSE (IF IsArray(Head(lists)) THEN Len(Head(lists)[2]) ELSE 0)
         + TotalEntries(Tail(lists))

BothReturned(i) ==
  /\ Answered(i)
  /\ inv[i].handler = "signups"
  /\ Len(inv[i].calls) = 2
  /\ inv[i].calls[1].outcome = "returned"
  /\ inv[i].calls[2].outcome = "returned"

\* C10: in handleGetFacilitySignups, for a payload {data: U, courses: M}
\* whose upserts succeed, the user upsert receives exactly the records of U,
\* the course upsert processes exactly the entries under every agency of M,
\* and the response reports database.users.count = |U| and
\* database.courses.count = the number of entries over all agencies of M.
C10_CountsMatchPayload ==
  \A i \in Invocations :
    BothReturned(i)
      => LET U == Get(inv[i].payload, "data")
             M == Get(inv[i].payload, "courses")
             database == inv[i].response.body.database
         IN /\ inv[i].calls[1].routine = "insertFacilitySignups"
            /\ inv[i].calls[1].arg = U
            /\ inv[i].calls[1].writes = [n \in 1..Len(U[2]) |-> SignupValues(U[2][n])]
            /\ inv[i].calls[2].routine = "insertCourseInfo"
            /\ inv[i].calls[2].arg = M
            /\ inv[i].calls[2].writes =
                 [n \in 1..Len(Flatten(EntryValues(M))) |->
                    CourseValues(Flatten(EntryValues(M))[n])]
            /\ database["users"].count = Len(U[2])
            /\ database["courses"].count = TotalEntries(EntryValues(M))

\* data [u1, u2] and courses {AgencyA: [c1, c2], AgencyB: [c1b]}: counts 2, 3.
C10_Witness ==
  \E i \in Invocations :
    /\ BothReturned(i)
    /\ Get(inv[i].payload, "data") = Arr(<<u1, u2>>)
    /\ Len(EntryKeys(Get(inv[i].payload, "courses"))) = 2
    /\ inv[i].response.body.database["users"].count = 2
    /\ inv[i].response.body.database["courses"].count = 3

\* The connections checked out of the pool.
CheckedOut == {c \in Conns : conns[c].owner # "none"}

\* C16: every connection an upsert routine acquires is released exactly once
\* before the routine returns or throws, on every path (success, a failing
\* BEGIN, record upsert, SET, COMMIT or ROLLBACK), and a routine that got no
\* connection releases none; a connection is checked out only while a
\* routine holds it, so with no routine running none is checked out.
C16_ConnectionReleasedOnce ==
  /\ \A i \in Invocations : \A n \in FinishedCalls(i) :
       inv[i].calls[n].releases = IF inv[i].calls[n].conn = "none" THEN 0 ELSE 1
  /\ \A i \in Invocations :
       inv[i].pc = "db"
         => /\ inv[i].db.releases = 0
            /\ inv[i].db.conn # "none" => conns[inv[i].db.conn].owner = i
  /\ \A c \in CheckedOut :
       /\ inv[conns[c].owner].pc = "db"
       /\ inv[conns[c].owner].db.conn = c
  /\ (\A i \in Invocations : inv[i].pc # "db") => CheckedOut = {}

\* COMMIT failed and then ROLLBACK failed: the connection is back in the pool.
C16_Witness ==
  \E i \in Invocations : \E n \in FinishedCalls(i) :
    /\ inv[i].calls[n].log = <<"BEGIN", "INSERT", "COMMIT", "ROLLBACK">>
    /\ inv[i].calls[n].error = StatementErrorMessage("ROLLBACK")
    /\ inv[i].calls[n].conn \in Conns
    /\ inv[i].calls[n].releases = 1
    /\ CheckedOut = {}

\* The HTTP response of invocation i has been sent.
Responded(i) == inv[i].response.status # 0

Last(seq) == seq[Len(seq)]

\* The transaction of a finished call is over: it never began (no
\* connection), or its last statement is COMMIT or ROLLBACK.
TransactionOver(call) ==
  /\ call.outcome # "running"
  /\ call.log = <<>> \/ Last(call.log) \in {"COMMIT", "ROLLBACK"}
  /\ call.releases = IF call.conn = "none" THEN 0 ELSE 1

\* C17: within one invocation the I/O steps are sequential: the resource
\* request is issued only after the authentication call has resolved; an
\* upsert is called only after the resource call has resolved; a call starts
\* only when every earlier call's transaction is over and its connection
\* released (the course upsert after the committed user upsert), the
\* invocation holding no connection when it asks for one; and the response is
\* sent only when the last call has finished.
C17_Sequential ==
  \A i \in Invocations :
    /\ inv[i].pc = "auth" => Len(inv[i].outbound) = 1 /\ ~AuthResolved(i)
    /\ RequestsOf(i, inv[i].handler) # {}
         => /\ AuthResolved(i)
            /\ inv[i].outbound[1].kind = "auth"
            /\ RequestsOf(i, inv[i].handler) = {2}
    /\ inv[i].pc = "fetch" => ~Fetched(i) /\ inv[i].calls = <<>>
    /\ inv[i].calls # <<>> => Fetched(i) /\ Len(inv[i].outbound) = 2
    /\ \A n \in 1..(Len(inv[i].calls) - 1) :
         /\ TransactionOver(inv[i].calls[n])
         /\ inv[i].calls[n].routine = "insertFacilitySignups"
         /\ inv[i].calls[n].outcome = "returned"
         /\ Last(inv[i].calls[n].log) = "COMMIT"
         /\ inv[i].calls[n + 1].routine = "insertCourseInfo"
    /\ InRoutine(i, "connect") => \A c \in Conns : conns[c].owner # i
    /\ Responded(i)
         => /\ Answered(i)
            /\ \A n \in 1..Len(inv[i].calls) : TransactionOver(inv[i].calls[n])
            /\ inv[i].db = NoDb
            /\ \A c \in Conns : conns[c].owner # i

\* Both upserts of a facility-signups invocation ran, one after the other,
\* before the response.
C17_Witness ==
  \E i \in Invocations :
    /\ Responded(i)
    /\ Len(inv[i].calls) = 2
    /\ inv[i].calls[1].log = <<"BEGIN", "INSERT", "COMMIT">>
    /\ inv[i].calls[2].log = <<"BEGIN", "INSERT", "INSERT", "ROLLBACK">>

\* The positions of a statement in a log.
Positions(log, statement) == {p \in 1..Len(log) : log[p] = statement}

\* The statements invocation i has issued in its call n.
LogOf(i, n) ==
  IF inv[i].calls[n].outcome = "running" THEN inv[i].db.log ELSE inv[i].calls[n].log

\* C18: in every execution of insertElearningCodes the suspending SET is
\* issued right after BEGIN and before any record upsert, every record upsert
\* runs with enforcement suspended, the restoring SET is issued after the last
\* record upsert, and COMMIT is issued only right after the restoring SET has
\* succeeded, with enforcement on.
C18_SuspendedOnlyAroundUpserts ==
  \A i \in Invocations : \A n \in CallsTo(i, "insertElearningCodes") :
    LET log == LogOf(i, n) IN
    /\ \A p \in Positions(log, "SET_replica") : p = 2 /\ log[1] = "BEGIN"
    /\ \A p \in Positions(log, "INSERT") :
         /\ log[2] = "SET_replica"
         /\ \A q \in 3..p : log[q] = "INSERT"
    /\ \A p \in Positions(log, "SET_default") :
         /\ log[2] = "SET_replica"
         /\ \A q \in 3..(p - 1) : log[q] = "INSERT"
         /\ p - 3 = Len(inv[i].calls[n].arg[2])
    /\ \A p \in Positions(log, "COMMIT") : log[p - 1] = "SET_default"
    /\ inv[i].calls[n].outcome = "running"
         => /\ InRoutine(i, "query") => conns[inv[i].db.conn].role = "replica"
            /\ InRoutine(i, "SET_default") => conns[inv[i].db.conn].role = "replica"
            /\ InRoutine(i, "COMMIT") => conns[inv[i].db.conn].role = "origin"
    /\ inv[i].calls[n].outcome = "returned"
         => log = <<"BEGIN", "SET_replica">>
                    \o [m \in 1..Len(inv[i].calls[n].arg[2]) |-> "INSERT"]
                    \o <<"SET_default", "COMMIT">>

\* Two codes upserted between the two SET statements, then committed.
C18_Witness ==
  \E i \in Invocations : \E n \in ReturnedCalls(i, "insertElearningCodes") :
    /\ inv[i].calls[n].log =
         <<"BEGIN", "SET_replica", "INSERT", "INSERT", "SET_default", "COMMIT">>
    /\ conns[inv[i].calls[n].conn].role = "origin"

\* C19 (as claimed): a connection in the pool has referential-integrity
\* enforcement on, whatever path the routine that released it took, and so
\* has the connection of a routine about to issue BEGIN.
C19_ReleasedWithEnforcementOn ==
  /\ \A c \in Conns : conns[c].owner = "none" => conns[c].role = "origin"
  /\ \A i \in Invocations :
       InRoutine(i, "BEGIN") => conns[inv[i].db.conn].role = "origin"

\* The payload has a `data` field that is an array.
HasDataArray(v) == ~IsNullish(v) /\ IsArray(Get(v, "data"))

\* The payload has a `courses` field that is an object.
HasCoursesObject(v) == ~IsNullish(v) /\ Get(v, "courses")[1] \in {"obj", "arr"}

\* The record kinds a handler persists from its payload.
NothingToPersist(i) ==
  /\ ~HasDataArray(inv[i].payload)
  /\ inv[i].handler = "signups" => ~HasCoursesObject(inv[i].payload)

\* C20 (as claimed): when the fetched payload has no `data` array the user /
\* e-learning-code upsert is not called, when it has no `courses` object the
\* course upsert is not called, and with neither the invocation makes no
\* upsert call and answers HTTP 200 with an empty database map.
C20_NothingPersistedIs200 ==
  \A i \in Invocations :
    (Fetched(i) /\ Answered(i))
      => /\ ~HasDataArray(inv[i].payload)
              => /\ CallsTo(i, "insertFacilitySignups") = {}
                 /\ CallsTo(i, "insertElearningCodes") = {}
         /\ ~HasCoursesObject(inv[i].payload)
              => CallsTo(i, "insertCourseInfo") = {}
         /\ NothingToPersist(i)
              => /\ inv[i].calls = <<>>
                 /\ Status(i) = 200
                 /\ inv[i].response.body.database = <<>>

\* The user upsert of invocation i committed and its course upsert threw.
CoursesFailedAfterUsersCommitted(i) ==
  /\ Len(inv[i].calls) = 2
  /\ inv[i].calls[1].routine = "insertFacilitySignups"
  /\ inv[i].calls[1].outcome = "returned"
  /\ inv[i].calls[2].routine = "insertCourseInfo"
  /\ inv[i].calls[2].outcome = "threw"

\* C21: the user upsert and the course upsert of one facility-signups
\* invocation are separate transactions: when the course upsert fails after
\* the user upsert has committed, its ROLLBACK discards the course statements
\* only; the user rows the invocation committed are still in their table and
\* the course table is what it was before the course upsert.
C21_SeparateTransactions ==
  \A i \in Invocations :
    CoursesFailedAfterUsersCommitted(i)
      => LET users == inv[i].calls[1]
             courses == inv[i].calls[2]
         IN /\ users.after.get_facility_signups =
                 ApplyAll("insertFacilitySignups",
                          users.before.get_facility_signups, AllValues(users))
            /\ courses.before = users.after
            /\ courses.after = courses.before
            /\ tables = users.after
            /\ \A m \in 1..Len(users.arg[2]) :
                 RowsWithKey(tables.get_facility_signups, "user_id",
                             Get(users.arg[2][m], "user_id")) # {}

\* Users u1 and u2 committed into empty tables; the course upsert wrote c1 in
\* its transaction, failed on the next course and rolled back.
C21_Witness ==
  \E i \in Invocations :
    /\ CoursesFailedAfterUsersCommitted(i)
    /\ inv[i].calls[1].before = EmptyTables
    /\ inv[i].calls[1].arg = Arr(<<u1, u2>>)
    /\ inv[i].calls[2].writes = <<CourseValues(c1)>>
    /\ inv[i].calls[2].error = StatementErrorMessage("INSERT")
    /\ tables.get_facility_signups = {SignupValues(u1), SignupValues(u2)}
    /\ tables.course_info = {}

(***************************************************************************)
(* Properties of concurrent invocations.                                   *)
(***************************************************************************)
UpsertRoutines == {"insertFacilitySignups", "insertCourseInfo", "insertElearningCodes"}

\* The values a table's rows can come from: the rows an earlier ingestion
\* left, and the values of every record of every upsert call that committed.
Sources(routine) ==
  LoadedTables[TableOf(routine)]
    \cup UNION {UNION {Range(inv[i].calls[n].writes) :
                          n \in ReturnedCalls(i, routine)} : i \in DOMAIN inv}

OneRowPerKey(routine) ==
  \A r1, r2 \in tables[TableOf(routine)] :
    r1[KeyOf(routine)] = r2[KeyOf(routine)] => r1 = r2

\* C22 (as claimed): after any interleaving of concurrent invocations each
\* table holds at most one row per natural key and every row is, column for
\* column, the values of one input record of one committed upsert call.
C22_RowsFromOneRecord ==
  \A routine \in UpsertRoutines :
    /\ OneRowPerKey(routine)
    /\ \A r \in tables[TableOf(routine)] : r \in Sources(routine)

\* C22 (amended): each table holds at most one row per natural key; the key
\* and every column of the DO UPDATE list of a row hold the values of one
\* input record of one committed upsert call (the last committed for the
\* key); a column outside the list (created_at) holds the value of a record
\* with the same key, the one that inserted the row.
C22_RowsFromOneRecordButCreatedAt ==
  \A routine \in UpsertRoutines :
    /\ OneRowPerKey(routine)
    /\ \A r \in tables[TableOf(routine)] :
         /\ \E w \in Sources(routine) :
              \A c \in UpdateColumnsOf(routine) \cup {KeyOf(routine)} : r[c] = w[c]
         /\ \E w \in Sources(routine) :
              /\ w[KeyOf(routine)] = r[KeyOf(routine)]
              /\ \A c \in DOMAIN r \ UpdateColumnsOf(routine) : r[c] = w[c]

\* Two invocations have both committed a record for user_id 1, u1 and u1b,
\* over the row of u0, and two for e-learning code id 1.
C22_Witness ==
  /\ \E i, j \in DOMAIN inv :
       /\ i # j
       /\ \E n \in ReturnedCalls(i, "insertFacilitySignups") :
            inv[i].calls[n].arg = Arr(<<u1>>)
       /\ \E n \in ReturnedCalls(j, "insertFacilitySignups") :
            inv[j].calls[n].arg = Arr(<<u1b, u2>>)
  /\ \E r \in tables.get_facility_signups :
       r.user_id = Num(1) /\ r.username = Str("ann") /\ r.created_at = Str("t0")
  /\ Cardinality(tables.get_facility_signups) = 2

\* C23: in any interleaving of concurrent invocations each invocation makes
\* at most one authentication call and at most one resource fetch, the fetch
\* after its own authentication call has resolved, and the cookies and the
\* token of the fetch are those of the invocation's own authentication
\* response {response: {cookies, xsrf}}, whatever session another invocation
\* has received.
C23_SessionPerInvocation ==
  \A i \in DOMAIN inv :
    /\ Cardinality(RequestsOf(i, "auth")) <= 1
    /\ Cardinality(RequestsOf(i, inv[i].handler)) <= 1
    /\ Len(inv[i].outbound) <= 2
    /\ \A n \in RequestsOf(i, inv[i].handler) :
         LET req == inv[i].outbound[n]
             own == Get(inv[i].externalResponse, "response")
         IN /\ AuthResolved(i)
            /\ NestedWithToken(inv[i].externalResponse)
            /\ req.cookies = Get(own, "cookies")
            /\ req.xsrf = Get(own, "xsrf")
            /\ req.csrfHeader = Get(own, "xsrf")
            /\ req.Cookie = CookieScheme(env.FACILITY_ID, Get(own, "cookies"),
                                         Get(own, "xsrf"))

\* Two invocations in flight with two different sessions, each fetching with
\* its own.
C23_Witness ==
  \E i, j \in DOMAIN inv :
    /\ i # j
    /\ Len(inv[i].outbound) = 2
    /\ Len(inv[j].outbound) = 2
    /\ inv[i].externalResponse # inv[j].externalResponse
    /\ inv[i].outbound[2].xsrf = Str("xyz")
    /\ inv[j].outbound[2].xsrf = Str("uvw")
    /\ inv[i].pc = "fetch"
    /\ inv[j].pc = "fetch"

\* The natural keys present in the table of a routine.
KeysIn(tbls, routine) == {r[KeyOf(routine)] : r \in tbls[TableOf(routine)]}

\* C24: no step of any invocation, successful, failed or concurrent with
\* another, removes a key from a table: the set of keys committed in each of
\* the three tables never shrinks.
C24_KeysNeverRemoved ==
  [][\A routine \in UpsertRoutines :
       KeysIn(tables, routine) \subseteq KeysIn(tables', routine)]_vars

\* An upsert committed new keys next to the loaded ones and another
\* invocation's upsert failed and rolled back.
C24_Witness ==
  /\ \E i \in DOMAIN inv : \E n \in FinishedCalls(i) :
       /\ inv[i].calls[n].outcome = "threw"
       /\ inv[i].calls[n].writes # <<>>
  /\ \E i \in DOMAIN inv : ReturnedCalls(i, "insertElearningCodes") # {}
  /\ KeysIn(tables, "insertElearningCodes") = {Num(1), Num(2)}
  /\ KeysIn(tables, "insertFacilitySignups") = {Num(1)}

(***************************************************************************)
(* Termination of an invocation.                                           *)
(***************************************************************************)
\* A response, once sent, is the invocation's only one: no later step sends
\* another or changes it.
AtMostOneResponse ==
  [][\A i \in DOMAIN inv :
       Responded(i) => inv'[i].response = inv[i].response]_vars

OnlySuccessOrError ==
  [](\A i \in DOMAIN inv : Responded(i) => inv[i].response.status \in {200, 500})

\* An invocation that has been received eventually sends its response.
EventuallyResponds ==
  \A i \in Invocations : (inv[i].pc # "idle") ~> Responded(i)

\* Every received invocation ends with a response or suspended at an await
\* whose response was cut short.
RespondsUnlessCutShort ==
  \A i \in Invocations :
    (inv[i].pc # "idle") ~> (Responded(i) \/ inv[i].pc = "stalled")

\* C25: every invocation of a resource webhook sends exactly one HTTP
\* response, 200 or 500 and never both, and it eventually sends it when each
\* outbound request and each database operation eventually delivers a
\* complete result or reports an error.
C25_ExactlyOneResponseEventually ==
  AtMostOneResponse /\ OnlySuccessOrError /\ EventuallyResponds

(***************************************************************************)
(* Properties of the outbound request functions.                           *)
(***************************************************************************)
\* Every two-byte lead is followed by a continuation byte and no
\* continuation byte stands alone.
RECURSIVE ValidUtf8(_)
ValidUtf8(b) ==
  IF b = <<>> THEN TRUE
  ELSE IF b[1] < 128 THEN ValidUtf8(Tail(b))
  ELSE /\ IsLead2(b[1])
       /\ Len(b) >= 2
       /\ IsContinuation(b[2])
       /\ ValidUtf8(SubSeq(b, 3, Len(b)))

\* The text of the body: the body decoded as a whole.
BodyText == Utf8Decode(http.body)

\* C7 (as claimed): each of the three request functions resolves a body that
\* is not valid JSON with {raw: the complete original body text}, and a body
\* that is valid JSON with its parsed value; a received body never rejects.
C7_RawIsOriginalText ==
  (http.fn \in RequestFunctions /\ ValidUtf8(http.body)
     /\ http.received = Len(http.body) /\ http.settled = "resolved")
    => IF JsonParse(BodyText).ok
       THEN http.value = JsonParse(BodyText).value
       ELSE http.value = Obj([raw |-> Str(BodyText)])

====
